---- MODULE Spec2Model ----
(***************************************************************************)
(* Model of the MFA orchestration in packages/app/src/lib/platform.ts:     *)
(* WebPlatform.registerAuthenticator, getAuthToken,                        *)
(* registerPlatformAuthenticator, supportsAuthType and the two prepare     *)
(* dispatches.  Every `await` of the source is one suspension point: an    *)
(* action models the resumption of an invocation after the awaited call    *)
(* settles, together with the synchronous code that runs up to the next    *)
(* await (which issues the next call).                                     *)
(***************************************************************************)
EXTENDS Integers, Sequences, FiniteSets, TLC

VARIABLES
    webAuthnTypes,  \* the types t for which webAuthnClient.supportsType(t)
    pc,             \* per invocation: the await it is suspended at
    op,             \* per invocation: the entry point that was called
    argType,        \* per invocation: the `type` argument of the call
    res,            \* per invocation: the start response (`res`)
    prepData,       \* per invocation: the value the prepare step returned
    completeRes,    \* per invocation: what the complete call resolved to
    e,              \* per invocation: the error caught at line 259
    outcome,        \* per invocation: how the returned promise settled
    calls,          \* per invocation: the app.api calls issued, in order
    settled         \* per invocation: how each awaited step settled, in order

vars == <<webAuthnTypes, pc, op, argType, res, prepData, completeRes, e, outcome, calls, settled>>

----------------------------------------------------------------------------
(* Bounds *)

MaxId == 2          \* ids the remote authority may hand out: 1..MaxId
MaxToken == 2       \* tokens the remote authority may hand out: 1..MaxToken

Ids == 1..MaxId
Tokens == 1..MaxToken

\* The invocations of one behaviour of Spec: a single call.
SingleInvocation == {1}

----------------------------------------------------------------------------
(* Types and values *)

\* enum AuthType, as far as this file names it; "PublicKey" stands for any
\* member that has no case in the dispatches (the `default:` branches).
AuthTypes == {"Email", "Totp", "WebAuthnPlatform", "WebAuthnPortable", "OpenID", "PublicKey"}

WebAuthnAuthTypes == {"WebAuthnPlatform", "WebAuthnPortable"}

\* `type?: AuthType` left out by the caller of getAuthToken
NoType == "undefined"

\* JavaScript null / undefined
Null == [tag |-> "null", val |-> ""]

Str(s) == [tag |-> "string", val |-> s]

Obj(kind, v) == [tag |-> kind, val |-> v]

\* a check that lets every value through
Truthy_Always(v) == TRUE

\* JavaScript truthiness, as used by `code ? {code} : null` and `!prepData`
Truthy(v) == /\ v.tag # "null"
             /\ ~(v.tag = "string" /\ v.val = "")

\* Errors.  `site` is the place that created the error object.
NoErr == [code |-> "", msg |-> "", site |-> ""]

Err(code, msg, site) == [code |-> code, msg |-> msg, site |-> site]

RemoteErrCodes == {"SERVER_ERROR", "FAILED_CONNECTION"}

\* what a rejected app.api call may throw
RemoteErrs(call) == {Err(c, "", call) : c \in RemoteErrCodes}

\* how an awaited promise settles
Return(v) == [kind |-> "return", data |-> v, err |-> NoErr]

Throw(err) == [kind |-> "throw", data |-> Null, err |-> err]

\* values the prompt dialog resolves to: null on cancel, or the input text
PromptResults == {Null, Str(""), Str("123456")}

\* how webAuthnClient / OpenIDClient prepare calls may settle
ClientCompletions(kind) ==
    { Return(Obj(kind, "response")), Return(Null),
      Throw(Err("AUTHENTICATION_FAILED", "ceremony failed", kind)) }

----------------------------------------------------------------------------
(* Capability registry *)

\* a capability list naming a type that has no case in the dispatches
SupportedTypes_WithPublicKey(wa) ==
    {"Email", "Totp", "PublicKey"} \cup {t \in WebAuthnAuthTypes : t \in wa}

SupportedTypes(wa) == {"Email", "Totp"} \cup {t \in WebAuthnAuthTypes : t \in wa}

supportsAuthType(type) == type \in SupportedTypes(webAuthnTypes)

platformAuthType == "WebAuthnPlatform"

supportsPlatformAuthenticator == supportsAuthType("WebAuthnPlatform")

----------------------------------------------------------------------------
(* Prepare dispatches: the set of ways the returned promise may settle *)

PromptCode(code) == IF Truthy(code) THEN Return(Obj("code", code.val)) ELSE Return(Null)

TypeNotSupported == Err("AUTHENTICATION_FAILED", "Authentication type not supported!", "prepare")

_prepareRegisterMFAuthenticator(type) ==
    CASE type \in WebAuthnAuthTypes -> ClientCompletions("webauthn")
      [] type = "Email" -> {PromptCode(code) : code \in PromptResults}
      [] type = "Totp" -> {PromptCode(code2) : code2 \in PromptResults}
      [] type = "OpenID" -> ClientCompletions("openid")
      [] OTHER -> {Throw(TypeNotSupported)}

_prepareCompleteAuthRequest(type) ==
    CASE type \in WebAuthnAuthTypes -> ClientCompletions("webauthn")
      [] type = "Email" -> {PromptCode(code) : code \in PromptResults}
      [] type = "Totp" -> {PromptCode(code2) : code2 \in PromptResults}
      [] type = "OpenID" -> ClientCompletions("openid")
      [] OTHER -> {Throw(TypeNotSupported)}

----------------------------------------------------------------------------
(* Bookkeeping *)

NoRes == [id |-> 0, type |-> "", token |-> 0]

NoOutcome == [status |-> "pending", value |-> 0, err |-> NoErr]

Resolved(v) == [status |-> "resolved", value |-> v, err |-> NoErr]

Rejected(err) == [status |-> "rejected", value |-> 0, err |-> err]

Call(name, type, id, data) == [call |-> name, type |-> type, id |-> id, data |-> data]

Invocations == DOMAIN pc

\* the awaited step `name` of invocation i settles as r
Settle(i, name, r) ==
    settled' = [settled EXCEPT ![i] = Append(@, [call |-> name, kind |-> r.kind, err |-> r.err])]

InitFor(invs) ==
    /\ webAuthnTypes \in SUBSET WebAuthnAuthTypes
    /\ pc = [i \in invs |-> "idle"]
    /\ op = [i \in invs |-> ""]
    /\ argType = [i \in invs |-> ""]
    /\ res = [i \in invs |-> NoRes]
    /\ prepData = [i \in invs |-> Null]
    /\ completeRes = [i \in invs |-> 0]
    /\ e = [i \in invs |-> NoErr]
    /\ outcome = [i \in invs |-> NoOutcome]
    /\ calls = [i \in invs |-> <<>>]
    /\ settled = [i \in invs |-> <<>>]

Init == InitFor(SingleInvocation)

----------------------------------------------------------------------------
(* registerAuthenticator *)

\* lines 247-249: the synchronous prefix issues the start call
EnterRegisterAuthenticator(i, entry, type) ==
    /\ pc' = [pc EXCEPT ![i] = "startRegisterAuthenticator"]
    /\ op' = [op EXCEPT ![i] = entry]
    /\ argType' = [argType EXCEPT ![i] = type]
    /\ calls' = [calls EXCEPT ![i] = Append(@, Call("startRegisterAuthenticator", type, 0, Null))]
    /\ UNCHANGED <<webAuthnTypes, res, prepData, completeRes, e, outcome, settled>>

registerAuthenticator(i) ==
    /\ pc[i] = "idle"
    /\ \E type \in AuthTypes : EnterRegisterAuthenticator(i, "registerAuthenticator", type)

\* lines 338-347
registerPlatformAuthenticator(i) ==
    /\ pc[i] = "idle"
    /\ IF platformAuthType = "null"
       THEN /\ pc' = [pc EXCEPT ![i] = "done"]
            /\ op' = [op EXCEPT ![i] = "registerPlatformAuthenticator"]
            /\ outcome' = [outcome EXCEPT ![i] = Rejected(Err("NOT_SUPPORTED", "", "registerPlatformAuthenticator"))]
            /\ UNCHANGED <<webAuthnTypes, argType, res, prepData, completeRes, e, calls, settled>>
       ELSE EnterRegisterAuthenticator(i, "registerPlatformAuthenticator", platformAuthType)

\* the delete call issued without the id of the start response
RollbackId_Unset(i) == 0

\* the start response kept in a field shared by the invocations, where a
\* later invocation's response replaces an earlier one's
RollbackId_Shared(i) ==
    res[CHOOSE j \in Invocations :
            /\ res[j].id # 0
            /\ \A k \in Invocations : res[k].id # 0 => j >= k].id

\* line 260: the id handed to deleteAuthenticator
RollbackId(i) == res[i].id

\* a catch block that rethrows without the delete call
Catch_NoDelete(i, err) ==
    /\ e' = [e EXCEPT ![i] = err]
    /\ outcome' = [outcome EXCEPT ![i] = Rejected(err)]
    /\ pc' = [pc EXCEPT ![i] = "done"]
    /\ UNCHANGED calls

\* a catch block that issues the delete call without awaiting it
Catch_NotAwaited(i, err) ==
    /\ e' = [e EXCEPT ![i] = err]
    /\ calls' = [calls EXCEPT ![i] = Append(@, Call("deleteAuthenticator", "", res[i].id, Null))]
    /\ outcome' = [outcome EXCEPT ![i] = Rejected(err)]
    /\ pc' = [pc EXCEPT ![i] = "done"]

\* lines 259-260: the catch block stores the error and issues the delete call
Catch(i, err) ==
    /\ e' = [e EXCEPT ![i] = err]
    /\ calls' = [calls EXCEPT ![i] = Append(@, Call("deleteAuthenticator", "", RollbackId(i), Null))]
    /\ pc' = [pc EXCEPT ![i] = "deleteAuthenticator"]
    /\ UNCHANGED outcome

\* the complete parameters built without the id of the start response
CompleteRegisterMFAuthenticatorParams_NoId(i, data) ==
    Call("completeRegisterAuthenticator", "", 0, data)

\* line 256: new CompleteRegisterMFAuthenticatorParams({ id: res.id, data: prepData })
CompleteRegisterMFAuthenticatorParams(i, data) ==
    Call("completeRegisterAuthenticator", "", res[i].id, data)

\* the start call moved inside the try block: its failure reaches the catch
StartRegisterReturns_InsideTry(i) ==
    /\ pc[i] = "startRegisterAuthenticator"
    /\ \/ \E id \in Ids, type \in AuthTypes :
            /\ res' = [res EXCEPT ![i] = [id |-> id, type |-> type, token |-> 0]]
            /\ Settle(i, "startRegisterAuthenticator", Return(Null))
            /\ pc' = [pc EXCEPT ![i] = "_prepareRegisterMFAuthenticator"]
            /\ UNCHANGED <<outcome, e, calls>>
       \/ \E err \in RemoteErrs("startRegisterAuthenticator") :
            /\ Settle(i, "startRegisterAuthenticator", Throw(err))
            /\ Catch(i, err)
            /\ UNCHANGED res
    /\ UNCHANGED <<webAuthnTypes, op, argType, prepData, completeRes>>

\* line 247 resumes; line 251 calls the prepare dispatch
StartRegisterReturns(i) ==
    /\ pc[i] = "startRegisterAuthenticator"
    /\ \/ \E id \in Ids, type \in AuthTypes :
            /\ res' = [res EXCEPT ![i] = [id |-> id, type |-> type, token |-> 0]]
            /\ Settle(i, "startRegisterAuthenticator", Return(Null))
            /\ pc' = [pc EXCEPT ![i] = "_prepareRegisterMFAuthenticator"]
            /\ UNCHANGED outcome
       \/ \E err \in RemoteErrs("startRegisterAuthenticator") :
            /\ Settle(i, "startRegisterAuthenticator", Throw(err))
            /\ outcome' = [outcome EXCEPT ![i] = Rejected(err)]
            /\ pc' = [pc EXCEPT ![i] = "done"]
            /\ UNCHANGED res
    /\ UNCHANGED <<webAuthnTypes, op, argType, prepData, completeRes, e, calls>>

\* lines 251-257
PrepareRegisterReturns(i) ==
    /\ pc[i] = "_prepareRegisterMFAuthenticator"
    /\ \E r \in _prepareRegisterMFAuthenticator(res[i].type) :
         /\ Settle(i, "_prepareRegisterMFAuthenticator", r)
         /\ IF r.kind = "throw"
            THEN /\ Catch(i, r.err)
                 /\ UNCHANGED prepData
            ELSE /\ prepData' = [prepData EXCEPT ![i] = r.data]
                 /\ IF ~Truthy(r.data)
                    THEN Catch(i, Err("AUTHENTICATION_FAILED", "Setup Canceled", "registerAuthenticator"))
                    ELSE /\ calls' = [calls EXCEPT ![i] =
                                 Append(@, CompleteRegisterMFAuthenticatorParams(i, r.data))]
                         /\ pc' = [pc EXCEPT ![i] = "completeRegisterAuthenticator"]
                         /\ UNCHANGED <<e, outcome>>
    /\ UNCHANGED <<webAuthnTypes, op, argType, res, completeRes>>

\* the rollback written as a `finally` block: it also runs after a success
CompleteRegisterReturns_Finally(i) ==
    /\ pc[i] = "completeRegisterAuthenticator"
    /\ \/ /\ Settle(i, "completeRegisterAuthenticator", Return(Null))
          /\ outcome' = [outcome EXCEPT ![i] = Resolved(res[i].id)]
          /\ calls' = [calls EXCEPT ![i] = Append(@, Call("deleteAuthenticator", "", res[i].id, Null))]
          /\ pc' = [pc EXCEPT ![i] = "done"]
          /\ UNCHANGED e
       \/ \E err \in RemoteErrs("completeRegisterAuthenticator") :
            /\ Settle(i, "completeRegisterAuthenticator", Throw(err))
            /\ Catch(i, err)
    /\ UNCHANGED <<webAuthnTypes, op, argType, res, prepData, completeRes>>

\* lines 255-258
CompleteRegisterReturns(i) ==
    /\ pc[i] = "completeRegisterAuthenticator"
    /\ \/ /\ Settle(i, "completeRegisterAuthenticator", Return(Null))
          /\ outcome' = [outcome EXCEPT ![i] = Resolved(res[i].id)]
          /\ pc' = [pc EXCEPT ![i] = "done"]
          /\ UNCHANGED <<e, calls>>
       \/ \E err \in RemoteErrs("completeRegisterAuthenticator") :
            /\ Settle(i, "completeRegisterAuthenticator", Throw(err))
            /\ Catch(i, err)
    /\ UNCHANGED <<webAuthnTypes, op, argType, res, prepData, completeRes>>

\* a rollback that issues the delete call again when it fails
DeleteReturns_Retry(i) ==
    /\ pc[i] = "deleteAuthenticator"
    /\ \/ /\ Settle(i, "deleteAuthenticator", Return(Null))
          /\ outcome' = [outcome EXCEPT ![i] = Rejected(e[i])]
          /\ pc' = [pc EXCEPT ![i] = "done"]
          /\ UNCHANGED calls
       \/ \E err \in RemoteErrs("deleteAuthenticator") :
            /\ Settle(i, "deleteAuthenticator", Throw(err))
            /\ calls' = [calls EXCEPT ![i] = Append(@, Call("deleteAuthenticator", "", res[i].id, Null))]
            /\ UNCHANGED <<outcome, pc>>
    /\ UNCHANGED <<webAuthnTypes, op, argType, res, prepData, completeRes, e>>

\* lines 260-261: `await deleteAuthenticator` sits inside the catch block, so
\* its rejection leaves the function instead of `throw e`
DeleteReturns(i) ==
    /\ pc[i] = "deleteAuthenticator"
    /\ \/ /\ Settle(i, "deleteAuthenticator", Return(Null))
          /\ outcome' = [outcome EXCEPT ![i] = Rejected(e[i])]
       \/ \E err \in RemoteErrs("deleteAuthenticator") :
            /\ Settle(i, "deleteAuthenticator", Throw(err))
            /\ outcome' = [outcome EXCEPT ![i] = Rejected(err)]
    /\ pc' = [pc EXCEPT ![i] = "done"]
    /\ UNCHANGED <<webAuthnTypes, op, argType, res, prepData, completeRes, e, calls>>

----------------------------------------------------------------------------
(* getAuthToken *)

\* lines 317-319
getAuthToken(i) ==
    /\ pc[i] = "idle"
    /\ \E type \in AuthTypes \cup {NoType} :
         /\ pc' = [pc EXCEPT ![i] = "startAuthRequest"]
         /\ op' = [op EXCEPT ![i] = "getAuthToken"]
         /\ argType' = [argType EXCEPT ![i] = type]
         /\ calls' = [calls EXCEPT ![i] = Append(@, Call("startAuthRequest", type, 0, Null))]
    /\ UNCHANGED <<webAuthnTypes, res, prepData, completeRes, e, outcome, settled>>

\* the registration's rollback copied into getAuthToken
Uncaught_WithRollback(i, err) ==
    /\ outcome' = [outcome EXCEPT ![i] = Rejected(err)]
    /\ pc' = [pc EXCEPT ![i] = "done"]
    /\ calls' = [calls EXCEPT ![i] = Append(@, Call("deleteAuthenticator", "", res[i].id, Null))]

\* lines 317-330 have no try/catch: an error thrown at line 321, 324 or 327
\* leaves getAuthToken as it is, and no further app.api call is issued
Uncaught(i, err) ==
    /\ outcome' = [outcome EXCEPT ![i] = Rejected(err)]
    /\ pc' = [pc EXCEPT ![i] = "done"]
    /\ UNCHANGED calls

\* returning the token of the complete response instead
ReturnedToken_FromComplete(i, completed) == completed

\* line 329: return res.token, given the value `completed` that the complete
\* call resolved to
ReturnedToken(i, completed) == res[i].token

\* the complete parameters built from a field of the prepared data
CompleteAuthRequestParams_CodeOnly(i, data) ==
    Call("completeAuthRequest", "", res[i].id, Str(data.val))

\* line 327: new CompleteAuthRequestParams({ id: res.id, data, email })
CompleteAuthRequestParams(i, data) ==
    Call("completeAuthRequest", "", res[i].id, data)

\* line 317 resumes; line 321 calls the prepare dispatch
StartAuthReturns(i) ==
    /\ pc[i] = "startAuthRequest"
    /\ \/ \E id \in Ids, type \in AuthTypes, token \in Tokens :
            /\ res' = [res EXCEPT ![i] = [id |-> id, type |-> type, token |-> token]]
            /\ Settle(i, "startAuthRequest", Return(Null))
            /\ pc' = [pc EXCEPT ![i] = "_prepareCompleteAuthRequest"]
            /\ UNCHANGED <<outcome, calls>>
       \/ \E err \in RemoteErrs("startAuthRequest") :
            /\ Settle(i, "startAuthRequest", Throw(err))
            /\ Uncaught(i, err)
            /\ UNCHANGED res
    /\ UNCHANGED <<webAuthnTypes, op, argType, prepData, completeRes, e>>

\* lines 321-327
PrepareAuthReturns(i) ==
    /\ pc[i] = "_prepareCompleteAuthRequest"
    /\ \E r \in _prepareCompleteAuthRequest(res[i].type) :
         /\ Settle(i, "_prepareCompleteAuthRequest", r)
         /\ IF r.kind = "throw"
            THEN /\ Uncaught(i, r.err)
                 /\ UNCHANGED prepData
            ELSE /\ prepData' = [prepData EXCEPT ![i] = r.data]
                 /\ IF ~Truthy(r.data)
                    THEN Uncaught(i, Err("AUTHENTICATION_FAILED", "Request was canceled.", "getAuthToken"))
                    ELSE /\ calls' = [calls EXCEPT ![i] =
                                 Append(@, CompleteAuthRequestParams(i, r.data))]
                         /\ pc' = [pc EXCEPT ![i] = "completeAuthRequest"]
                         /\ UNCHANGED outcome
    /\ UNCHANGED <<webAuthnTypes, op, argType, res, completeRes, e>>

\* lines 327-329: the value the complete call resolves to is dropped
CompleteAuthReturns(i) ==
    /\ pc[i] = "completeAuthRequest"
    /\ \/ \E token \in Tokens :
            /\ Settle(i, "completeAuthRequest", Return(Null))
            /\ completeRes' = [completeRes EXCEPT ![i] = token]
            /\ outcome' = [outcome EXCEPT ![i] = Resolved(ReturnedToken(i, token))]
            /\ pc' = [pc EXCEPT ![i] = "done"]
            /\ UNCHANGED calls
       \/ \E err \in RemoteErrs("completeAuthRequest") :
            /\ Settle(i, "completeAuthRequest", Throw(err))
            /\ Uncaught(i, err)
            /\ UNCHANGED completeRes
    /\ UNCHANGED <<webAuthnTypes, op, argType, res, prepData, e>>

----------------------------------------------------------------------------

Next ==
    \/ \E i \in Invocations : registerAuthenticator(i)
    \/ \E i \in Invocations : registerPlatformAuthenticator(i)
    \/ \E i \in Invocations : getAuthToken(i)
    \/ \E i \in Invocations : StartRegisterReturns(i)
    \/ \E i \in Invocations : PrepareRegisterReturns(i)
    \/ \E i \in Invocations : CompleteRegisterReturns(i)
    \/ \E i \in Invocations : DeleteReturns(i)
    \/ \E i \in Invocations : StartAuthReturns(i)
    \/ \E i \in Invocations : PrepareAuthReturns(i)
    \/ \E i \in Invocations : CompleteAuthReturns(i)

Spec == Init /\ [][Next]_vars

\* Two registrations in flight at once: the event loop may resume either
\* suspended invocation, in any order.
TwoInvocations == {1, 2}

\* the types the two callers ask for; the flow after the start call depends
\* on the type of the start response only, which stays unrestricted
ConcTypes == {"Totp", "WebAuthnPortable"}

\* registerAuthenticator does not read the capability registry
ConcInit == InitFor(TwoInvocations) /\ webAuthnTypes = WebAuthnAuthTypes

\* lines 236-249, for the callers of the concurrent runs
registerAuthenticatorConc(i) ==
    /\ pc[i] = "idle"
    /\ \E type \in ConcTypes : EnterRegisterAuthenticator(i, "registerAuthenticator", type)

ConcNext ==
    \/ \E i \in Invocations : registerAuthenticatorConc(i)
    \/ \E i \in Invocations : StartRegisterReturns(i)
    \/ \E i \in Invocations : PrepareRegisterReturns(i)
    \/ \E i \in Invocations : CompleteRegisterReturns(i)
    \/ \E i \in Invocations : DeleteReturns(i)

ConcSpec == ConcInit /\ [][ConcNext]_vars

\* every awaited call eventually settles and the event loop then resumes the
\* invocation that awaits it; nothing obliges a caller to start an invocation
Resume(i) ==
    \/ StartRegisterReturns(i)
    \/ PrepareRegisterReturns(i)
    \/ CompleteRegisterReturns(i)
    \/ DeleteReturns(i)
    \/ StartAuthReturns(i)
    \/ PrepareAuthReturns(i)
    \/ CompleteAuthReturns(i)

FairSpec == Spec /\ \A i \in SingleInvocation : WF_vars(Resume(i))

----------------------------------------------------------------------------
(* Properties *)

IsRegistration(i) == op[i] \in {"registerAuthenticator", "registerPlatformAuthenticator"}

IsDone(i) == pc[i] = "done"

\* positions in calls[i] of the calls of the given name
CallsOf(i, name) == {k \in DOMAIN calls[i] : calls[i][k].call = name}

\* the awaited step `name` of invocation i has settled in the given way
SettledAs(i, name, kind) ==
    \E k \in DOMAIN settled[i] : settled[i][k].call = name /\ settled[i][k].kind = kind

\* the prepare step returned without data (null, i.e. the user canceled)
PrepareEmpty(i, name) == SettledAs(i, name, "return") /\ prepData[i] = Null

\* the prepare step returned data
PrepareData(i, name) == SettledAs(i, name, "return") /\ prepData[i] # Null

CompleteRegisterFailed(i) ==
    /\ IsRegistration(i)
    /\ SettledAs(i, "startRegisterAuthenticator", "return")
    /\ PrepareData(i, "_prepareRegisterMFAuthenticator")
    /\ SettledAs(i, "completeRegisterAuthenticator", "throw")

\* C1: when start succeeded, prepare returned data and
\* completeRegisterAuthenticator failed, exactly one deleteAuthenticator call
\* has been issued, with the id of the start response.
C1_OneRollbackAfterCompleteFailure ==
    \A i \in Invocations :
        CompleteRegisterFailed(i) =>
            /\ Cardinality(CallsOf(i, "deleteAuthenticator")) = 1
            /\ res[i].id \in Ids
            /\ \A k \in CallsOf(i, "deleteAuthenticator") : calls[i][k].id = res[i].id

C1_Witness ==
    \E i \in Invocations :
        /\ CompleteRegisterFailed(i)
        /\ IsDone(i)
        /\ SettledAs(i, "deleteAuthenticator", "return")

\* C2 (as claimed): when the registration's prepare step returns empty, the
\* complete call is never issued, deleteAuthenticator is issued with the id
\* of the start response, and the call fails with
\* AUTHENTICATION_FAILED "Setup Canceled".
C2_CancelRollsBackAndReportsSetupCanceled ==
    \A i \in Invocations :
        (IsRegistration(i) /\ PrepareEmpty(i, "_prepareRegisterMFAuthenticator")) =>
            /\ CallsOf(i, "completeRegisterAuthenticator") = {}
            /\ \E k \in CallsOf(i, "deleteAuthenticator") : calls[i][k].id = res[i].id
            /\ IsDone(i) =>
                 /\ outcome[i].status = "rejected"
                 /\ outcome[i].err.code = "AUTHENTICATION_FAILED"
                 /\ outcome[i].err.msg = "Setup Canceled"

\* the failure of the prepare or the complete step of a registration
OriginalFailures(i) ==
    {settled[i][k].err : k \in {j \in DOMAIN settled[i] :
        /\ settled[i][j].kind = "throw"
        /\ settled[i][j].call \in {"_prepareRegisterMFAuthenticator", "completeRegisterAuthenticator"}}}
    \cup
    (IF PrepareEmpty(i, "_prepareRegisterMFAuthenticator")
     THEN {Err("AUTHENTICATION_FAILED", "Setup Canceled", "registerAuthenticator")}
     ELSE {})

\* C3 (as claimed): when the prepare or the complete step of a registration
\* fails, the caller receives that failure, whatever the outcome of the
\* rollback's deleteAuthenticator call.
C3_RollbackFailureNeverMasksOriginal ==
    \A i \in Invocations :
        (IsRegistration(i) /\ IsDone(i) /\ OriginalFailures(i) # {}) =>
            /\ outcome[i].status = "rejected"
            /\ outcome[i].err \in OriginalFailures(i)

Started(i) == IsRegistration(i) /\ SettledAs(i, "startRegisterAuthenticator", "return")

Completed(i) ==
    /\ SettledAs(i, "completeRegisterAuthenticator", "return")
    /\ outcome[i] = Resolved(res[i].id)

RolledBack(i) == \E k \in CallsOf(i, "deleteAuthenticator") : calls[i][k].id = res[i].id

\* C4: once the start call of a registration has returned an id, the
\* invocation eventually terminates, and it terminates either Completed or
\* RolledBack (delete attempted for that id), never both and never neither.
C4_CompletedOrRolledBack ==
    \A i \in SingleInvocation :
        /\ [](Started(i) => <>(IsDone(i) /\ (Completed(i) # RolledBack(i))))
        /\ []((Started(i) /\ IsDone(i)) => (Completed(i) # RolledBack(i)))

C4_Witness ==
    \E i \in Invocations :
        /\ Started(i)
        /\ IsDone(i)
        /\ RolledBack(i)
        /\ ~Completed(i)
        /\ SettledAs(i, "deleteAuthenticator", "throw")

\* C5 (as claimed): registerAuthenticator, and getAuthToken with an explicit
\* type, called with a type that supportsAuthType rejects, issue no app.api
\* call and fail with NOT_SUPPORTED.
C5_UnsupportedTypeMakesNoRemoteCall ==
    \A i \in Invocations :
        (/\ op[i] \in {"registerAuthenticator", "getAuthToken"}
         /\ argType[i] \in AuthTypes
         /\ ~supportsAuthType(argType[i])) =>
            /\ calls[i] = <<>>
            /\ IsDone(i) => (outcome[i].status = "rejected" /\ outcome[i].err.code = "NOT_SUPPORTED")

\* C6 (as claimed): registerPlatformAuthenticator, called while
\* supportsPlatformAuthenticator is false, rejects with NOT_SUPPORTED and
\* issues no app.api call.
C6_PlatformUnsupportedMakesNoRemoteCall ==
    \A i \in Invocations :
        (op[i] = "registerPlatformAuthenticator" /\ ~supportsPlatformAuthenticator) =>
            /\ calls[i] = <<>>
            /\ outcome[i].status = "rejected"
            /\ outcome[i].err.code = "NOT_SUPPORTED"

AuthSucceeded(i) == op[i] = "getAuthToken" /\ outcome[i].status = "resolved"

C8_AuthNeverDeletes ==
    \A i \in Invocations :
        op[i] = "getAuthToken" => CallsOf(i, "deleteAuthenticator") = {}

C8_Witness ==
    \E i \in Invocations :
        /\ op[i] = "getAuthToken"
        /\ IsDone(i)
        /\ outcome[i].status = "rejected"
        /\ SettledAs(i, "completeAuthRequest", "throw")

\* C9: a registration that resolves returns the id of the start response,
\* and that id is the one passed to completeRegisterAuthenticator.
C9_ReturnedIdIsStartId ==
    \A i \in Invocations :
        (IsRegistration(i) /\ outcome[i].status = "resolved") =>
            /\ res[i].id \in Ids
            /\ outcome[i].value = res[i].id
            /\ Cardinality(CallsOf(i, "completeRegisterAuthenticator")) = 1
            /\ \A k \in CallsOf(i, "completeRegisterAuthenticator") : calls[i][k].id = res[i].id

C9_Witness ==
    \E i \in Invocations :
        /\ IsRegistration(i)
        /\ outcome[i].status = "resolved"
        /\ SettledAs(i, "completeRegisterAuthenticator", "return")

\* C10: when the prepare step of getAuthToken returns empty, the call fails
\* with AUTHENTICATION_FAILED "Request was canceled.", completeAuthRequest is
\* not called and no cleanup call follows: startAuthRequest stays the only
\* app.api call of the invocation.
C10_AuthCancelReportsRequestCanceled ==
    \A i \in Invocations :
        (op[i] = "getAuthToken" /\ PrepareEmpty(i, "_prepareCompleteAuthRequest")) =>
            /\ IsDone(i)
            /\ outcome[i].status = "rejected"
            /\ outcome[i].err.code = "AUTHENTICATION_FAILED"
            /\ outcome[i].err.msg = "Request was canceled."
            /\ CallsOf(i, "completeAuthRequest") = {}
            /\ Len(calls[i]) = 1
            /\ calls[i][1].call = "startAuthRequest"

C10_Witness ==
    \E i \in Invocations :
        /\ op[i] = "getAuthToken"
        /\ PrepareEmpty(i, "_prepareCompleteAuthRequest")
        /\ IsDone(i)

\* positions in settled[i] of the settlements of the given step
SettledOf(i, name) == {k \in DOMAIN settled[i] : settled[i][k].call = name}

StartRegisterFailed(i) ==
    IsRegistration(i) /\ SettledAs(i, "startRegisterAuthenticator", "throw")

\* C11: when startRegisterAuthenticator fails, the invocation ends at once
\* with that failure; the prepare step is not run and no other app.api call
\* (complete, delete) is issued.
C11_StartFailurePropagatesWithoutRollback ==
    \A i \in Invocations :
        StartRegisterFailed(i) =>
            /\ IsDone(i)
            /\ outcome[i] = Rejected(settled[i][1].err)
            /\ outcome[i].err \in RemoteErrs("startRegisterAuthenticator")
            /\ Len(settled[i]) = 1
            /\ Len(calls[i]) = 1
            /\ calls[i][1].call = "startRegisterAuthenticator"

C11_Witness ==
    \E i \in Invocations :
        /\ StartRegisterFailed(i)
        /\ IsDone(i)
        /\ outcome[i].status = "rejected"

PrepareRegisterThrew(i) ==
    IsRegistration(i) /\ SettledAs(i, "_prepareRegisterMFAuthenticator", "throw")

\* C12: when the registration's prepare step throws, deleteAuthenticator is
\* issued exactly once with the id of the start response, it has settled by
\* the time the caller's promise settles, and completeRegisterAuthenticator
\* is never issued.
C12_PrepareErrorRollsBackBeforeRejecting ==
    \A i \in Invocations :
        PrepareRegisterThrew(i) =>
            /\ Cardinality(CallsOf(i, "deleteAuthenticator")) = 1
            /\ \A k \in CallsOf(i, "deleteAuthenticator") : calls[i][k].id = res[i].id
            /\ res[i].id \in Ids
            /\ CallsOf(i, "completeRegisterAuthenticator") = {}
            /\ outcome[i].status # "resolved"
            /\ outcome[i].status = "rejected" => SettledOf(i, "deleteAuthenticator") # {}
            /\ SettledOf(i, "deleteAuthenticator") = {} => (pc[i] = "deleteAuthenticator" /\ outcome[i] = NoOutcome)

C12_Witness ==
    \E i \in Invocations :
        /\ PrepareRegisterThrew(i)
        /\ IsDone(i)
        /\ SettledAs(i, "deleteAuthenticator", "return")
        /\ outcome[i].status = "rejected"

StepNames ==
    {"startRegisterAuthenticator", "_prepareRegisterMFAuthenticator", "completeRegisterAuthenticator",
     "deleteAuthenticator", "startAuthRequest", "_prepareCompleteAuthRequest", "completeAuthRequest"}

\* C13: within one invocation every step (start, prepare, complete, delete)
\* is invoked at most once and settles at most once: nothing is retried.
C13_EachStepAtMostOnce ==
    \A i \in Invocations :
        \A name \in StepNames :
            /\ Cardinality(CallsOf(i, name)) <= 1
            /\ Cardinality(SettledOf(i, name)) <= 1

C13_Witness ==
    \E i \in Invocations :
        /\ IsDone(i)
        /\ SettledAs(i, "completeRegisterAuthenticator", "throw")
        /\ SettledAs(i, "deleteAuthenticator", "throw")
        /\ Len(calls[i]) = 3
        /\ Len(settled[i]) = 4

StartOf(i) == IF IsRegistration(i) THEN "startRegisterAuthenticator" ELSE "startAuthRequest"

PrepareOf(i) == IF IsRegistration(i) THEN "_prepareRegisterMFAuthenticator" ELSE "_prepareCompleteAuthRequest"

CompleteOf(i) == IF IsRegistration(i) THEN "completeRegisterAuthenticator" ELSE "completeAuthRequest"

\* the prepare step of invocation i has been started
PrepareStarted(i) == pc[i] = PrepareOf(i) \/ SettledOf(i, PrepareOf(i)) # {}

\* C14: in both flows the complete call is issued only after the start call
\* has returned and then the prepare step has returned non-empty data; it
\* carries the id of the start response and the prepared data as returned;
\* the prepare step is not started before the start call has returned.
C14_CompleteAfterStartAndPrepare ==
    \A i \in Invocations :
        /\ PrepareStarted(i) =>
             /\ Len(settled[i]) >= 1
             /\ settled[i][1].call = StartOf(i)
             /\ settled[i][1].kind = "return"
        /\ \A k \in CallsOf(i, CompleteOf(i)) :
             /\ k = 2
             /\ Len(settled[i]) >= 2
             /\ settled[i][1].call = StartOf(i)
             /\ settled[i][1].kind = "return"
             /\ settled[i][2].call = PrepareOf(i)
             /\ settled[i][2].kind = "return"
             /\ prepData[i] # Null
             /\ res[i].id \in Ids
             /\ calls[i][k].id = res[i].id
             /\ calls[i][k].data = prepData[i]
        /\ op[i] # "getAuthToken" => CallsOf(i, "completeAuthRequest") = {}
        /\ op[i] = "getAuthToken" => CallsOf(i, "completeRegisterAuthenticator") = {}

C14_Witness ==
    \E i \in Invocations :
        /\ op[i] = "getAuthToken"
        /\ pc[i] = "completeAuthRequest"
        /\ CallsOf(i, "completeAuthRequest") = {2}
        /\ prepData[i].tag = "code"

\* the dispatch has a case for the type, i.e. does not end in `default:`
HasRegisterStrategy(t) == _prepareRegisterMFAuthenticator(t) # {Throw(TypeNotSupported)}

HasAuthStrategy(t) == _prepareCompleteAuthRequest(t) # {Throw(TypeNotSupported)}

HasStrategy(i) ==
    IF IsRegistration(i) THEN HasRegisterStrategy(res[i].type) ELSE HasAuthStrategy(res[i].type)

\* C15 (as claimed): when the start response carries a type without a
\* strategy, the prepare dispatch fails with error kind NOT_SUPPORTED.
C15_UnknownTypeReportsNotSupported ==
    \A i \in Invocations :
        (SettledOf(i, PrepareOf(i)) # {} /\ ~HasStrategy(i)) =>
            \A k \in SettledOf(i, PrepareOf(i)) :
                /\ settled[i][k].kind = "throw"
                /\ settled[i][k].err.code = "NOT_SUPPORTED"

\* C17 (as claimed): for every AuthType t, supportsAuthType(t) holds if and
\* only if both prepare dispatches have a case for t.
C17_CapabilityIffStrategy ==
    \A t \in AuthTypes :
        supportsAuthType(t) <=> (HasRegisterStrategy(t) /\ HasAuthStrategy(t))

\* C17 (amended): every type that supportsAuthType accepts has a case in
\* both prepare dispatches, and a prepare step that ends in the default
\* branch was dispatched on a type that supportsAuthType rejects; the
\* converse does not hold.
C17_SupportedImpliesStrategy ==
    /\ \A t \in AuthTypes :
         supportsAuthType(t) => (HasRegisterStrategy(t) /\ HasAuthStrategy(t))
    /\ \A i \in Invocations :
         \A k \in SettledOf(i, PrepareOf(i)) :
             settled[i][k].err = TypeNotSupported => ~supportsAuthType(res[i].type)

C17_Witness ==
    \E i \in Invocations :
        /\ res[i].type \in WebAuthnAuthTypes
        /\ supportsAuthType(res[i].type)
        /\ SettledAs(i, PrepareOf(i), "return")
        /\ \E t \in AuthTypes : ~supportsAuthType(t) /\ HasRegisterStrategy(t) /\ HasAuthStrategy(t)

\* C18: a registration that resolves has issued no deleteAuthenticator call;
\* a finished registration has issued one if and only if its start call
\* succeeded and it ended in failure, and a delete call is never issued
\* before the start call succeeded or in an invocation that then resolves.
C18_DeleteIffFailedAfterStart ==
    \A i \in Invocations :
        IsRegistration(i) =>
            /\ outcome[i].status = "resolved" => CallsOf(i, "deleteAuthenticator") = {}
            /\ CallsOf(i, "deleteAuthenticator") # {} => Started(i)
            /\ IsDone(i) =>
                 (CallsOf(i, "deleteAuthenticator") # {} <=> (Started(i) /\ outcome[i].status = "rejected"))

C18_Witness ==
    \E i \in Invocations :
        /\ IsRegistration(i)
        /\ IsDone(i)
        /\ outcome[i].status = "resolved"
        /\ CallsOf(i, "deleteAuthenticator") = {}
        /\ Len(calls[i]) = 2

\* the complete and delete calls of invocation i
RecordCalls(i) == CallsOf(i, "completeRegisterAuthenticator") \cup CallsOf(i, "deleteAuthenticator")

\* C16: when two registrations that got different ids from their start
\* calls run interleaved, every complete and delete call of an invocation
\* carries that invocation's own id, never the other's.
C16_CallsCarryOwnId ==
    \A i \in Invocations : \A j \in Invocations \ {i} :
        (/\ IsRegistration(i) /\ IsRegistration(j)
         /\ res[i].id # 0 /\ res[j].id # 0
         /\ res[i].id # res[j].id) =>
            \A k \in RecordCalls(i) :
                /\ calls[i][k].id = res[i].id
                /\ calls[i][k].id # res[j].id

C16_Witness ==
    /\ Invocations = TwoInvocations
    /\ res[1].id \in Ids /\ res[2].id \in Ids
    /\ res[1].id # res[2].id
    /\ pc[1] = "deleteAuthenticator"
    /\ pc[2] = "completeRegisterAuthenticator"
    /\ RecordCalls(1) # {} /\ RecordCalls(2) # {}

====
